---- MODULE Spec2Model ----
(***************************************************************************)
(* TravelWishList: the persistence adapter (src/lib/db.ts), the HTTP       *)
(* routes over it (collection and item route) and the client handlers of   *)
(* src/app/page.tsx that drive them.                                       *)
(*                                                                         *)
(* Conventions                                                             *)
(*   - a JS object is a TLA+ record; a property that is absent (undefined) *)
(*     is a field that is not in the record's DOMAIN;                      *)
(*   - SQL NULL / JS null of the image_url column is the value Null;       *)
(*   - latitude and longitude are integers counting 10^-9 degrees, so that *)
(*     the hosted DECIMAL(.., 8) columns have something to round;          *)
(*   - an "undefined" result (getById, update) is the empty sequence << >>,*)
(*     a found row r is << r >>;                                           *)
(*   - a backend call that throws is chosen by the fault argument of the   *)
(*     operation: "none", or the name of the call that fails.              *)
(***************************************************************************)
EXTENDS Integers, Sequences, FiniteSets, TLC

VARIABLES
    isProduction,        \* db.ts:32   POSTGRES_URL is set (fixed per process)
    db,                  \* the backend: [rows, seq, open, exists]
    now,                 \* the backend's CURRENT_TIMESTAMP
    last,                \* the last request served:
                         \*   [op, status, faulted, existed, missed, changed]
    everFailed,          \* some backend call has thrown so far
    inflight,            \* the requests being served at once: [base, reqs]
    destinations,        \* page.tsx:81  client list, as last fetched
    selectedDestination, \* page.tsx:82  << >> (null) or << row >>
    editingId,           \* page.tsx:84  0 (null) or the id being edited
    formData,            \* page.tsx:95
    coordinates,         \* page.tsx:90  << >> (null) or << [lat, lon] >>
    geocodingStatus,     \* page.tsx:89
    geocodeTimeoutRef,   \* page.tsx:92  << >>, or << place >> while the
                         \*   debounce timer set for place has not fired
    geocodeCalls         \* the places whose geocodeLocation call, made by a
                         \*   timer that fired, has not answered yet

serverVars == <<isProduction, db, now>>
clientVars == <<destinations, selectedDestination, editingId, formData,
                coordinates, geocodingStatus>>
geocodeVars == <<geocodeTimeoutRef, geocodeCalls>>
vars == <<isProduction, db, now, last, everFailed, inflight, destinations,
          selectedDestination, editingId, formData, coordinates,
          geocodingStatus, geocodeTimeoutRef, geocodeCalls>>

----------------------------------------------------------------------------
(* Bounds of the model *)

MaxSeq == 2        \* ids the backend hands out under Spec
FieldMaxSeq == 2   \* ids the backend hands out under FieldSpec
ClientMaxSeq == 3  \* ids the backend hands out under ClientSpec
MaxClock == 1      \* ticks of CURRENT_TIMESTAMP
MaxBatch == 2      \* pairs in one PATCH body chosen freely

----------------------------------------------------------------------------
(* Values *)

Null == "<null>"

NewFields == {"rank", "destination", "country", "latitude", "longitude",
              "reason", "budget", "timeline", "image_url"}

Has(o, f) == f \in DOMAIN o

Abs(n) == IF n < 0 THEN -n ELSE n

\* `x || d` of JavaScript, for a property f of o whose falsy value is zero
OrDefault(o, f, zero, d) == IF Has(o, f) /\ o[f] # zero THEN o[f] ELSE d

\* `!o.f` for a text property
Missing(o, f) == ~Has(o, f) \/ o[f] = ""

Min(a, b) == IF a <= b THEN a ELSE b

----------------------------------------------------------------------------
(* The backend's columns *)

\* a value written to a DECIMAL(p, 8) column: rounded to 8 decimals, half
\* away from zero (n counts 10^-9)
DECIMAL8(n) == LET r == ((Abs(n) + 5) \div 10) * 10 IN IF n < 0 THEN -r ELSE r

\* what a latitude/longitude column keeps of a written value
Stored(n) == IF isProduction THEN DECIMAL8(n) ELSE n

\* a row as the hosted driver hands it over: DECIMAL columns arrive as text
PgRow(row) ==
    [row EXCEPT !.latitude = [type |-> "string", val |-> @],
                !.longitude = [type |-> "string", val |-> @],
                !.rank = [type |-> "number", val |-> @],
                !.id = [type |-> "number", val |-> @]]

\* parseFloat / parseInt(.., 10) of the text of a number: the number
parseNumber(cell) == cell.val

normalizeRow(row) ==
    [row EXCEPT
        !.latitude = IF @.type = "string" THEN parseNumber(@) ELSE @.val,
        !.longitude = IF @.type = "string" THEN parseNumber(@) ELSE @.val,
        !.rank = IF @.type = "string" THEN parseNumber(@) ELSE @.val,
        !.id = IF @.type = "string" THEN parseNumber(@) ELSE @.val]

\* a row as the adapter returns it
Fetched(row) == IF isProduction THEN normalizeRow(PgRow(row)) ELSE row

----------------------------------------------------------------------------
(* Connection and table set-up *)

getLocalDb(d, fault) ==
    IF d.open THEN [ok |-> TRUE, db |-> d]
    ELSE IF fault = "open" THEN [ok |-> FALSE, db |-> d]
    ELSE IF fault = "init" THEN [ok |-> FALSE, db |-> [d EXCEPT !.open = TRUE]]
    ELSE [ok |-> TRUE, db |-> [d EXCEPT !.open = TRUE, !.exists = TRUE]]

initProductionDb(d, fault) ==
    IF fault = "init" THEN [ok |-> FALSE, db |-> d]
    ELSE [ok |-> TRUE, db |-> [d EXCEPT !.exists = TRUE]]

\* a statement runs when its table exists and the backend does not fail
Runs(d, fault, point) == d.exists /\ fault # point

\* the faults that can be injected into the set-up of an operation
SetupFaults(d, inits) ==
    IF isProduction THEN (IF inits THEN {"init"} ELSE {})
    ELSE (IF d.open THEN {} ELSE {"open", "init"})

----------------------------------------------------------------------------
(* The adapter *)

\* as if the statement had no ORDER BY rank: rows in id order
OrderById(rows) ==
    LET n == Cardinality(rows) IN
    {s \in [1..n -> rows] :
        /\ \A i, j \in 1..n : i # j => s[i] # s[j]
        /\ \A i \in 1..(n - 1) : s[i].id < s[i + 1].id}

IsSortedByRank(s) == \A i \in 1..(Len(s) - 1) : s[i].rank <= s[i + 1].rank

\* SELECT * .. ORDER BY rank ASC: every order of the rows that ascends by
\* rank (SQL leaves the order of equal ranks open)
OrderByRankAsc(rows) ==
    LET n == Cardinality(rows) IN
    {s \in [1..n -> rows] :
        /\ \A i, j \in 1..n : i # j => s[i] # s[j]
        /\ IsSortedByRank(s)}

\* as if the catch block of getAll ended in `throw error`, as create's does
getAllRethrowing(d, fault) ==
    LET p == IF isProduction THEN initProductionDb(d, fault)
                             ELSE getLocalDb(d, fault) IN
    IF p.ok /\ Runs(p.db, fault, "select")
    THEN {[db |-> p.db, threw |-> FALSE,
           ret |-> [i \in 1..Len(s) |-> Fetched(s[i])]] :
            s \in OrderByRankAsc(p.db.rows)}
    ELSE {[db |-> p.db, threw |-> TRUE, ret |-> << >>]}

\* the outcomes of getAll(): [db, threw, ret]; set-up and SELECT are inside
\* its try block, and its catch block returns []
getAll(d, fault) ==
    LET p == IF isProduction THEN initProductionDb(d, fault)
                             ELSE getLocalDb(d, fault) IN
    IF p.ok /\ Runs(p.db, fault, "select")
    THEN {[db |-> p.db, threw |-> FALSE,
           ret |-> [i \in 1..Len(s) |-> Fetched(s[i])]] :
            s \in OrderByRankAsc(p.db.rows)}
    ELSE {[db |-> p.db, threw |-> FALSE, ret |-> << >>]}

getById(d, id, fault) ==
    LET p == IF isProduction THEN [ok |-> TRUE, db |-> d]
                             ELSE getLocalDb(d, fault) IN
    IF p.ok /\ Runs(p.db, fault, "select")
    THEN LET hit == {r \in p.db.rows : r.id = id} IN
         [db |-> p.db,
          ret |-> IF hit = {} THEN << >> ELSE << Fetched(CHOOSE r \in hit : TRUE) >>]
    ELSE [db |-> p.db, ret |-> << >>]

\* as if updated_at had no default and an INSERT left it at the epoch
InsertedRowUpdatedUnset(id, item, t) ==
    [id |-> id,
     rank |-> item.rank,
     destination |-> item.destination,
     country |-> item.country,
     latitude |-> Stored(item.latitude),
     longitude |-> Stored(item.longitude),
     reason |-> item.reason,
     budget |-> item.budget,
     timeline |-> item.timeline,
     image_url |-> OrDefault(item, "image_url", "", Null),
     created_at |-> t,
     updated_at |-> 0]

\* the row an INSERT of item writes
InsertedRow(id, item, t) ==
    [id |-> id,
     rank |-> item.rank,
     destination |-> item.destination,
     country |-> item.country,
     latitude |-> Stored(item.latitude),
     longitude |-> Stored(item.longitude),
     reason |-> item.reason,
     budget |-> item.budget,
     timeline |-> item.timeline,
     image_url |-> OrDefault(item, "image_url", "", Null),
     created_at |-> t,
     updated_at |-> t]

\* as if the key were a plain rowid: one more than the largest id stored
createAfterLargestId(d, item, fault, t) ==
    LET p == IF isProduction THEN initProductionDb(d, fault)
                             ELSE getLocalDb(d, fault) IN
    IF p.ok /\ Runs(p.db, fault, "insert")
    THEN LET largest == IF p.db.rows = {} THEN 0
                        ELSE CHOOSE n \in {r.id : r \in p.db.rows} :
                                 \A r \in p.db.rows : r.id <= n
             row == InsertedRow(largest + 1, item, t)
             d2 == [p.db EXCEPT !.rows = @ \cup {row}, !.seq = @ + 1] IN
         IF ~isProduction /\ fault = "reselect"
         THEN [db |-> d2, threw |-> TRUE, ret |-> << >>]
         ELSE [db |-> d2, threw |-> FALSE, ret |-> << Fetched(row) >>]
    ELSE [db |-> p.db, threw |-> TRUE, ret |-> << >>]

\* create(item): [db, threw, ret]; the id is the next of AUTOINCREMENT or
\* SERIAL, a counter that only grows
create(d, item, fault, t) ==
    LET p == IF isProduction THEN initProductionDb(d, fault)
                             ELSE getLocalDb(d, fault) IN
    IF p.ok /\ Runs(p.db, fault, "insert")
    THEN LET row == InsertedRow(p.db.seq + 1, item, t)
             d2 == [p.db EXCEPT !.rows = @ \cup {row}, !.seq = @ + 1] IN
         IF ~isProduction /\ fault = "reselect"
         THEN [db |-> d2, threw |-> TRUE, ret |-> << >>]
         ELSE [db |-> d2, threw |-> FALSE, ret |-> << Fetched(row) >>]
    ELSE [db |-> p.db, threw |-> TRUE, ret |-> << >>]

\* as if the UPDATE wrote what item holds and a default for what it lacks
ReplacedRow(old, existing, item, t) ==
    [old EXCEPT
        !.rank = IF Has(item, "rank") THEN item.rank ELSE 1,
        !.destination = IF Has(item, "destination") THEN item.destination ELSE "",
        !.country = IF Has(item, "country") THEN item.country ELSE "",
        !.latitude = Stored(IF Has(item, "latitude") THEN item.latitude ELSE 0),
        !.longitude = Stored(IF Has(item, "longitude") THEN item.longitude ELSE 0),
        !.reason = IF Has(item, "reason") THEN item.reason ELSE "",
        !.budget = IF Has(item, "budget") THEN item.budget ELSE "",
        !.timeline = IF Has(item, "timeline") THEN item.timeline ELSE "",
        !.image_url = IF Has(item, "image_url") THEN item.image_url ELSE Null,
        !.updated_at = t]

\* the row an UPDATE .. WHERE id = ? makes of the stored row old: each column
\* is set from item where item supplies it, from existing (the row read
\* before) where it does not; id and created_at are not in the SET list
UpdatedRow(old, existing, item, t) ==
    [old EXCEPT
        !.rank = IF Has(item, "rank") THEN item.rank ELSE existing.rank,
        !.destination = IF Has(item, "destination") THEN item.destination
                                                    ELSE existing.destination,
        !.country = IF Has(item, "country") THEN item.country ELSE existing.country,
        !.latitude = Stored(IF Has(item, "latitude") THEN item.latitude
                                                     ELSE existing.latitude),
        !.longitude = Stored(IF Has(item, "longitude") THEN item.longitude
                                                       ELSE existing.longitude),
        !.reason = IF Has(item, "reason") THEN item.reason ELSE existing.reason,
        !.budget = IF Has(item, "budget") THEN item.budget ELSE existing.budget,
        !.timeline = IF Has(item, "timeline") THEN item.timeline ELSE existing.timeline,
        !.image_url = IF Has(item, "image_url") THEN item.image_url
                                                ELSE existing.image_url,
        !.updated_at = t]

\* update(id, item): [db, ret]
update(d, id, item, fault, t) ==
    LET g == getById(d, id, fault) IN
    IF g.ret = << >> THEN [db |-> g.db, ret |-> << >>]
    ELSE IF ~Runs(g.db, fault, "update") THEN [db |-> g.db, ret |-> << >>]
    ELSE LET old == CHOOSE r \in g.db.rows : r.id = id
             new == UpdatedRow(old, g.ret[1], item, t)
             d2 == [g.db EXCEPT !.rows = (@ \ {old}) \cup {new}] IN
         IF ~isProduction /\ fault = "reselect"
         THEN [db |-> d2, ret |-> << >>]
         ELSE [db |-> d2, ret |-> << Fetched(new) >>]

\* as if remove tested `result.changes >= 0`
removeReportsTrue(d, id, fault) ==
    LET p == IF isProduction THEN [ok |-> TRUE, db |-> d]
                             ELSE getLocalDb(d, fault) IN
    IF p.ok /\ Runs(p.db, fault, "delete")
    THEN [db |-> [p.db EXCEPT !.rows = {r \in @ : r.id # id}], ret |-> TRUE]
    ELSE [db |-> p.db, ret |-> FALSE]

\* remove(id): [db, ret]
remove(d, id, fault) ==
    LET p == IF isProduction THEN [ok |-> TRUE, db |-> d]
                             ELSE getLocalDb(d, fault) IN
    IF p.ok /\ Runs(p.db, fault, "delete")
    THEN [db |-> [p.db EXCEPT !.rows = {r \in @ : r.id # id}],
          ret |-> \E r \in p.db.rows : r.id = id]
    ELSE [db |-> p.db, ret |-> FALSE]

PairFault == <<"pair1", "pair2", "pair3", "pair4", "pair5">>

\* as if the statement were run with its two values in the other order
SetRankArgsSwapped(rows, pair, t) ==
    {IF r.id = pair.rank THEN [r EXCEPT !.rank = pair.id, !.updated_at = t]
                         ELSE r : r \in rows}

\* as if the statement moved the rank by the given amount
SetRankRelative(rows, pair, t) ==
    {IF r.id = pair.id THEN [r EXCEPT !.rank = @ + pair.rank, !.updated_at = t]
                       ELSE r : r \in rows}

\* as if the statement had no WHERE clause
SetRankEveryRow(rows, pair, t) ==
    {[r EXCEPT !.rank = pair.rank, !.updated_at = t] : r \in rows}

\* UPDATE .. SET rank = ?, updated_at = CURRENT_TIMESTAMP WHERE id = ?
SetRank(rows, pair, t) ==
    {IF r.id = pair.id THEN [r EXCEPT !.rank = pair.rank, !.updated_at = t]
                       ELSE r : r \in rows}

RECURSIVE ApplyPairs(_, _, _, _, _)
\* the loop over the pairs from the k-th on: [rows, ok]; a pair's statement
\* throws when the table is missing or the backend fails on it
ApplyPairs(d, ranks, k, fault, t) ==
    IF k > Len(ranks) THEN [rows |-> d.rows, ok |-> TRUE]
    ELSE IF ~Runs(d, fault, PairFault[k]) THEN [rows |-> d.rows, ok |-> FALSE]
    ELSE ApplyPairs([d EXCEPT !.rows = SetRank(@, ranks[k], t)],
                    ranks, k + 1, fault, t)

\* as if the loop ran in a transaction that a failure rolls back
updateRanksAtomic(d, ranks, fault, t) ==
    LET p == IF isProduction THEN [ok |-> TRUE, db |-> d]
                             ELSE getLocalDb(d, fault) IN
    IF ~p.ok \/ (~isProduction /\ ~p.db.exists)
    THEN [db |-> p.db, ret |-> FALSE]
    ELSE LET a == ApplyPairs(p.db, ranks, 1, fault, t) IN
         [db |-> IF a.ok THEN [p.db EXCEPT !.rows = a.rows] ELSE p.db,
          ret |-> a.ok]

\* as if a pair whose UPDATE changed no row made the batch fail
updateRanksStrict(d, ranks, fault, t) ==
    LET p == IF isProduction THEN [ok |-> TRUE, db |-> d]
                             ELSE getLocalDb(d, fault) IN
    IF ~p.ok \/ (~isProduction /\ ~p.db.exists)
    THEN [db |-> p.db, ret |-> FALSE]
    ELSE LET a == ApplyPairs(p.db, ranks, 1, fault, t) IN
         [db |-> [p.db EXCEPT !.rows = a.rows],
          ret |-> a.ok /\ \A k \in 1..Len(ranks) :
                              \E r \in p.db.rows : r.id = ranks[k].id]

\* updateRanks(ranks): [db, ret]; the local branch prepares its statement
\* before the loop, which throws when the table is missing
updateRanks(d, ranks, fault, t) ==
    LET p == IF isProduction THEN [ok |-> TRUE, db |-> d]
                             ELSE getLocalDb(d, fault) IN
    IF ~p.ok \/ (~isProduction /\ ~p.db.exists)
    THEN [db |-> p.db, ret |-> FALSE]
    ELSE LET a == ApplyPairs(p.db, ranks, 1, fault, t) IN
         [db |-> [p.db EXCEPT !.rows = a.rows], ret |-> a.ok]

----------------------------------------------------------------------------
(* The HTTP routes: each gives [db, status, body] *)

ErrorBody(msg) == [error |-> msg]

\* GET /api/wishlist: the outcomes
GET(d, fault) ==
    {IF o.threw
     THEN [db |-> o.db, status |-> 500,
           body |-> ErrorBody("Failed to fetch travel destinations")]
     ELSE [db |-> o.db, status |-> 200, body |-> o.ret] :
        o \in getAll(d, fault)}

\* as if the rank were defaulted with `body.rank || 0`
PostItemRankZero(body) ==
    [rank |-> OrDefault(body, "rank", 0, 0),
     destination |-> body.destination,
     country |-> body.country,
     latitude |-> OrDefault(body, "latitude", 0, 0),
     longitude |-> OrDefault(body, "longitude", 0, 0),
     reason |-> OrDefault(body, "reason", "", ""),
     budget |-> OrDefault(body, "budget", "", ""),
     timeline |-> OrDefault(body, "timeline", "", ""),
     image_url |-> OrDefault(body, "image_url", "", "")]

\* the item POST hands to create: absent or falsy properties defaulted
PostItem(body) ==
    [rank |-> OrDefault(body, "rank", 0, 1),
     destination |-> body.destination,
     country |-> body.country,
     latitude |-> OrDefault(body, "latitude", 0, 0),
     longitude |-> OrDefault(body, "longitude", 0, 0),
     reason |-> OrDefault(body, "reason", "", ""),
     budget |-> OrDefault(body, "budget", "", ""),
     timeline |-> OrDefault(body, "timeline", "", ""),
     image_url |-> OrDefault(body, "image_url", "", "")]

\* as if POST tested `!body.destination` alone
POSTDestinationOnly(d, body, fault, t) ==
    IF Missing(body, "destination")
    THEN [db |-> d, status |-> 400,
          body |-> ErrorBody("Destination and country are required")]
    ELSE LET item == PostItem([f \in DOMAIN body \cup {"country"} |->
                                 IF f \in DOMAIN body THEN body[f] ELSE ""])
             c == create(d, item, fault, t) IN
         IF c.threw
         THEN [db |-> c.db, status |-> 500,
               body |-> ErrorBody("Failed to create travel destination")]
         ELSE [db |-> c.db, status |-> 201, body |-> c.ret[1]]

\* POST /api/wishlist
POST(d, body, fault, t) ==
    IF Missing(body, "destination") \/ Missing(body, "country")
    THEN [db |-> d, status |-> 400,
          body |-> ErrorBody("Destination and country are required")]
    ELSE LET c == create(d, PostItem(body), fault, t) IN
         IF c.threw
         THEN [db |-> c.db, status |-> 500,
               body |-> ErrorBody("Failed to create travel destination")]
         ELSE [db |-> c.db, status |-> 201, body |-> c.ret[1]]

\* `!body.ranks || !Array.isArray(body.ranks)` on a JSON value
NotAnArray(body) ==
    \/ ~Has(body, "ranks")
    \/ body.ranks.type = "null"
    \/ (body.ranks.type = "string" /\ body.ranks.val = "")
    \/ body.ranks.type # "array"

\* as if PATCH also refused an array with no pairs
PATCHEmptyRefused(d, body, fault, t) ==
    IF NotAnArray(body) \/ Len(body.ranks.items) = 0
    THEN [db |-> d, status |-> 400, body |-> ErrorBody("Ranks array is required")]
    ELSE LET u == updateRanks(d, body.ranks.items, fault, t) IN
         IF u.ret
         THEN [db |-> u.db, status |-> 200, body |-> [success |-> TRUE]]
         ELSE [db |-> u.db, status |-> 500,
               body |-> ErrorBody("Failed to update ranks")]

\* PATCH /api/wishlist
PATCH(d, body, fault, t) ==
    IF NotAnArray(body)
    THEN [db |-> d, status |-> 400, body |-> ErrorBody("Ranks array is required")]
    ELSE LET u == updateRanks(d, body.ranks.items, fault, t) IN
         IF u.ret
         THEN [db |-> u.db, status |-> 200, body |-> [success |-> TRUE]]
         ELSE [db |-> u.db, status |-> 500,
               body |-> ErrorBody("Failed to update ranks")]

\* GET /api/wishlist/{id}
GETItem(d, id, fault) ==
    LET g == getById(d, id, fault) IN
    IF g.ret = << >>
    THEN [db |-> g.db, status |-> 404, body |-> ErrorBody("Destination not found")]
    ELSE [db |-> g.db, status |-> 200, body |-> g.ret[1]]

\* the object PUT hands to update: the nine properties read off the body,
\* those the body lacks being undefined
PutItem(body) == [f \in (DOMAIN body) \cap NewFields |-> body[f]]

\* as if PUT answered with whatever update returned
PUTUnchecked(d, id, body, fault, t) ==
    IF Missing(body, "destination") \/ Missing(body, "country")
    THEN [db |-> d, status |-> 400,
          body |-> ErrorBody("Destination and country are required")]
    ELSE LET u == update(d, id, PutItem(body), fault, t) IN
         [db |-> u.db, status |-> 200, body |-> u.ret]

\* PUT /api/wishlist/{id}
PUT(d, id, body, fault, t) ==
    IF Missing(body, "destination") \/ Missing(body, "country")
    THEN [db |-> d, status |-> 400,
          body |-> ErrorBody("Destination and country are required")]
    ELSE LET u == update(d, id, PutItem(body), fault, t) IN
         IF u.ret = << >>
         THEN [db |-> u.db, status |-> 404,
               body |-> ErrorBody("Destination not found")]
         ELSE [db |-> u.db, status |-> 200, body |-> u.ret[1]]

\* DELETE /api/wishlist/{id}
DELETE(d, id, fault) ==
    LET r == remove(d, id, fault) IN
    IF ~r.ret
    THEN [db |-> r.db, status |-> 404, body |-> ErrorBody("Destination not found")]
    ELSE [db |-> r.db, status |-> 200, body |-> [success |-> TRUE]]

----------------------------------------------------------------------------
(* Initial state: a fresh backend, a page not yet mounted *)

EmptyForm == [destination |-> "", country |-> "", reason |-> "",
              timeline |-> "someday", image_url |-> ""]

\* no request is being served
NoOverlap == [base |-> {}, reqs |-> << >>]

NoRequest == [op |-> "none", status |-> 0, faulted |-> FALSE,
              existed |-> FALSE, missed |-> FALSE, changed |-> FALSE]

Init ==
    /\ isProduction \in BOOLEAN
    /\ db = [rows |-> {}, seq |-> 0, open |-> FALSE, exists |-> FALSE]
    /\ now = 0
    /\ last = NoRequest
    /\ everFailed = FALSE
    /\ inflight = NoOverlap
    /\ destinations = << >>
    /\ selectedDestination = << >>
    /\ editingId = 0
    /\ formData = EmptyForm
    /\ coordinates = << >>
    /\ geocodingStatus = "idle"
    /\ geocodeTimeoutRef = << >>
    /\ geocodeCalls = {}

----------------------------------------------------------------------------
(* Requests made of the routes directly *)


Ids == 1..(MaxSeq + 1)

Exists(d, id) == \E r \in d.rows : r.id = id

\* what the model keeps of a served request: existed, that it named an id
\* stored when it arrived; missed, that it named an id that was not;
\* changed, that it changed the stored rows
ServedNaming(op, existed, missed, fault, o) ==
    /\ db' = o.db
    /\ last' = [op |-> op, status |-> o.status, faulted |-> (fault # "none"),
                existed |-> existed, missed |-> missed,
                changed |-> (o.db.rows # db.rows)]
    /\ everFailed' = (everFailed \/ fault # "none")
    /\ UNCHANGED <<isProduction, now, inflight, clientVars, geocodeVars>>

Served(op, existed, fault, o) == ServedNaming(op, existed, FALSE, fault, o)

Tick ==
    /\ now < MaxClock
    /\ now' = now + 1
    /\ last' = [NoRequest EXCEPT !.op = "tick"]
    /\ UNCHANGED <<isProduction, db, everFailed, inflight, clientVars, geocodeVars>>

ReqGET(fault) ==
    /\ fault \in {"none", "select"} \cup SetupFaults(db, TRUE)
    /\ \E o \in GET(db, fault) : Served("GET", FALSE, fault, o)

\* maxSeq: the model's bound on INSERTs
ReqPOST(body, fault, maxSeq) ==
    /\ db.seq < maxSeq
    /\ fault \in {"none", "insert"} \cup SetupFaults(db, TRUE)
                 \cup (IF isProduction THEN {} ELSE {"reselect"})
    /\ Served("POST", FALSE, fault, POST(db, body, fault, now))

ReqPATCH(body, fault) ==
    /\ fault \in {"none"} \cup SetupFaults(db, FALSE)
                 \cup (IF NotAnArray(body) THEN {}
                       ELSE {PairFault[k] : k \in 1..Len(body.ranks.items)})
    /\ ServedNaming("PATCH",
                    ~NotAnArray(body) /\ \E k \in 1..Len(body.ranks.items) :
                                            Exists(db, body.ranks.items[k].id),
                    ~NotAnArray(body) /\ \E k \in 1..Len(body.ranks.items) :
                                            ~Exists(db, body.ranks.items[k].id),
                    fault, PATCH(db, body, fault, now))

ReqGETItem(id, fault) ==
    /\ fault \in {"none", "select"} \cup SetupFaults(db, FALSE)
    /\ Served("GETItem", Exists(db, id), fault, GETItem(db, id, fault))

ReqPUT(id, body, fault) ==
    /\ fault \in {"none", "select", "update"} \cup SetupFaults(db, FALSE)
                 \cup (IF isProduction THEN {} ELSE {"reselect"})
    /\ Served("PUT", Exists(db, id), fault, PUT(db, id, body, fault, now))

ReqDELETE(id, fault) ==
    /\ fault \in {"none", "delete"} \cup SetupFaults(db, FALSE)
    /\ Served("DELETE", Exists(db, id), fault, DELETE(db, id, fault))

\* update(id, item) called with a partial item, as a caller of the adapter may
CallUpdate(id, item, fault) ==
    /\ fault \in {"none", "select", "update"} \cup SetupFaults(db, FALSE)
                 \cup (IF isProduction THEN {} ELSE {"reselect"})
    /\ LET u == update(db, id, item, fault, now) IN
       Served("update", Exists(db, id), fault,
              [db |-> u.db, status |-> IF u.ret = << >> THEN 0 ELSE 1])

AllFaults == {"none", "open", "init", "select", "insert", "update", "delete",
              "reselect"} \cup {PairFault[k] : k \in 1..Len(PairFault)}

EmptyItem == [f \in {} |-> 0]

ArrayBody(a) == [ranks |-> [type |-> "array", items |-> a]]

----------------------------------------------------------------------------
(* Spec: any sequence of requests to the routes, over bodies that differ in *)
(* rank alone                                                              *)

RankBodies ==
    {[destination |-> "Tokyo", country |-> "Japan"],
     [destination |-> "Tokyo", country |-> "Japan", rank |-> 0],
     [destination |-> "Tokyo", country |-> "Japan", rank |-> (0 - 1)],
     [destination |-> "Tokyo", country |-> "Japan", rank |-> 2],
     [destination |-> "Tokyo"]}

Pairs == [id : Ids, rank : {1, 2}] \cup {[id |-> 1, rank |-> 0]}
RankArrays == UNION {[1..n -> Pairs] : n \in 0..MaxBatch}
PatchBodies ==
    {ArrayBody(a) : a \in RankArrays}
    \cup {[ranks |-> [type |-> "string", val |-> "not-an-array"]],
          [ranks |-> [type |-> "null"]], EmptyItem}

Next ==
    \/ \E f \in AllFaults : ReqGET(f)
    \/ \E b \in RankBodies, f \in AllFaults : ReqPOST(b, f, MaxSeq)
    \/ \E b \in PatchBodies, f \in AllFaults : ReqPATCH(b, f)
    \/ \E i \in Ids, f \in AllFaults : ReqGETItem(i, f)
    \/ \E i \in Ids, b \in RankBodies, f \in AllFaults : ReqPUT(i, b, f)
    \/ \E i \in Ids, f \in AllFaults : ReqDELETE(i, f)

Spec == Init /\ [][Next]_vars

----------------------------------------------------------------------------
(* FieldSpec: requests and calls of update over bodies that differ in the  *)
(* properties they carry, under a clock that advances                      *)

BodyFull == [rank |-> 2, destination |-> "Tokyo", country |-> "Japan",
             latitude |-> 1500000000, longitude |-> 1234567895,
             reason |-> "food", budget |-> "luxury", timeline |-> "2026",
             image_url |-> "u1"]
BodyMinimal == [destination |-> "Paris", country |-> "France"]
BodyNoCountry == [destination |-> "Tokyo"]
BodyEmptyDestination == [destination |-> "", country |-> "Japan"]
BodyWithId == [id |-> FieldMaxSeq + 1, created_at |-> MaxClock + 1, rank |-> 1,
               destination |-> "Paris", country |-> "France"]

Bodies == {BodyFull, BodyMinimal, BodyNoCountry, BodyEmptyDestination, BodyWithId}

Items == {EmptyItem, [reason |-> "", image_url |-> ""]}

FieldIds == 1..(FieldMaxSeq + 1)

FieldNext ==
    \/ Tick
    \/ \E f \in AllFaults : ReqGET(f)
    \/ \E b \in Bodies, f \in AllFaults : ReqPOST(b, f, FieldMaxSeq)
    \/ \E i \in FieldIds, f \in AllFaults : ReqGETItem(i, f)
    \/ \E i \in FieldIds, b \in Bodies, f \in AllFaults : ReqPUT(i, b, f)
    \/ \E i \in FieldIds, f \in AllFaults : ReqDELETE(i, f)
    \/ \E i \in FieldIds, it \in Items, f \in AllFaults : CallUpdate(i, it, f)

FieldSpec == Init /\ [][FieldNext]_vars

----------------------------------------------------------------------------
(* The page (src/app/page.tsx): its handlers, each run to completion.      *)
(* A handler gives the set of its outcomes [db, c, ..], c the page's state.*)
(* List positions count from 1 here and from 0 in the source, so the rank  *)
(* `i + 1` of the source is the position itself.  The presentation state   *)
(* (showForm, error, loading, locationPreview) is not modelled.            *)

Client == [destinations |-> destinations,
           selectedDestination |-> selectedDestination,
           editingId |-> editingId,
           formData |-> formData,
           coordinates |-> coordinates,
           geocodingStatus |-> geocodingStatus]

InitialClient == [destinations |-> << >>,
                  selectedDestination |-> << >>,
                  editingId |-> 0,
                  formData |-> EmptyForm,
                  coordinates |-> << >>,
                  geocodingStatus |-> "idle"]

\* `!s.trim()`
Blank(str) == str = ""

\* the faults that can be injected into a GET of the list
FetchFaults(d) == {"none", "select"} \cup SetupFaults(d, TRUE)

\* fetchDestinations(), sel the selectedDestination its closure holds
fetchDestinations(c, d, fault, sel) ==
    IF fault \notin FetchFaults(d) THEN {}
    ELSE {[db |-> o.db,
           c |-> IF o.status \in 200..299
                 THEN [c EXCEPT
                         !.destinations = o.body,
                         !.selectedDestination =
                             IF Len(o.body) > 0 /\ sel = << >>
                             THEN << o.body[1] >> ELSE @]
                 ELSE c] :
            o \in GET(d, fault)}

\* the effect on [formData.destination, formData.country]: before is the
\* form of the previous render.  The timer it sets is kept by effectTimer
geocodeEffect(c, before) ==
    IF c.formData.destination = before.destination
       /\ c.formData.country = before.country
    THEN c
    ELSE IF Blank(c.formData.destination) \/ Blank(c.formData.country)
    THEN [c EXCEPT !.geocodingStatus = "idle", !.coordinates = << >>]
    ELSE [c EXCEPT !.geocodingStatus = "loading"]

\* geocodeTimeoutRef after the effect: a change of the text clears the timer
\* that has not fired and, unless a text is blank, sets one for the new text
effectTimer(c, before, timer) ==
    IF c.formData.destination = before.destination
       /\ c.formData.country = before.country
    THEN timer
    ELSE IF Blank(c.formData.destination) \/ Blank(c.formData.country)
    THEN << >>
    ELSE << [destination |-> c.formData.destination,
             country |-> c.formData.country] >>

\* the timer's callback once geocodeLocation has answered: result is << >>
\* (null) or << [lat, lon] >>
geocodeResolved(c, result) ==
    IF result # << >>
    THEN [c EXCEPT !.coordinates = result, !.geocodingStatus = "success"]
    ELSE [c EXCEPT !.coordinates = << >>, !.geocodingStatus = "error"]

\* onChange of a form field
editForm(c, field, value) ==
    geocodeEffect([c EXCEPT !.formData[field] = value], c.formData)

resetForm(c) ==
    geocodeEffect([c EXCEPT !.formData = EmptyForm,
                            !.editingId = 0,
                            !.coordinates = << >>,
                            !.geocodingStatus = "idle"],
                  c.formData)

handleEdit(c, dest) ==
    geocodeEffect(
        [c EXCEPT
            !.editingId = dest.id,
            !.formData = [destination |-> dest.destination,
                          country |-> dest.country,
                          reason |-> dest.reason,
                          timeline |-> dest.timeline,
                          image_url |-> IF dest.image_url = Null THEN ""
                                                               ELSE dest.image_url],
            !.coordinates = << [lat |-> dest.latitude, lon |-> dest.longitude] >>,
            !.geocodingStatus = "success"],
        c.formData)

handleSelectDestination(c, dest) == [c EXCEPT !.selectedDestination = << dest >>]

\* the payload of handleSubmit; JSON.stringify drops a rank that is undefined
SubmitPayload(c) ==
    LET base == [destination |-> c.formData.destination,
                 country |-> c.formData.country,
                 latitude |-> c.coordinates[1].lat,
                 longitude |-> c.coordinates[1].lon,
                 reason |-> c.formData.reason,
                 budget |-> "moderate",
                 timeline |-> c.formData.timeline,
                 image_url |-> c.formData.image_url]
        found == {k \in 1..Len(c.destinations) :
                    c.destinations[k].id = c.editingId}
        withRank(r) == [f \in DOMAIN base \cup {"rank"} |->
                            IF f = "rank" THEN r ELSE base[f]]
    IN  IF c.editingId = 0 THEN withRank(Len(c.destinations) + 1)
        ELSE IF found = {} THEN base
        ELSE withRank(c.destinations[CHOOSE k \in found :
                                        \A j \in found : k <= j].rank)

\* handleSubmit: status is the answer to its PUT or POST, 0 when none is sent
handleSubmit(c, d, f1, f2, t) ==
    IF Blank(c.formData.destination) \/ Blank(c.formData.country)
       \/ c.coordinates = << >>
    THEN IF f1 = "none" /\ f2 = "none"
         THEN {[db |-> d, c |-> c, status |-> 0]} ELSE {}
    ELSE LET h == IF c.editingId # 0
                  THEN PUT(d, c.editingId, SubmitPayload(c), f1, t)
                  ELSE POST(d, SubmitPayload(c), f1, t) IN
         IF h.status \in 200..299
         THEN {[db |-> o.db, c |-> resetForm(o.c), status |-> h.status] :
                 o \in fetchDestinations(c, h.db, f2, c.selectedDestination)}
         ELSE IF f2 = "none"
         THEN {[db |-> h.db, c |-> c, status |-> h.status]} ELSE {}

\* handleDelete, confirmed: the selection is repaired from the list the
\* handler's closure holds, the one of before the DELETE
handleDelete(c, d, id, f1, f2) ==
    LET h == DELETE(d, id, f1) IN
    IF h.status \in 200..299
    THEN {[db |-> o.db,
           c |-> [o.c EXCEPT
                    !.selectedDestination =
                        IF c.selectedDestination # << >>
                           /\ c.selectedDestination[1].id = id
                        THEN (IF Len(c.destinations) > 1
                              THEN << c.destinations[1] >> ELSE << >>)
                        ELSE @],
           status |-> h.status] :
            o \in fetchDestinations(c, h.db, f2, c.selectedDestination)}
    ELSE IF f2 = "none"
    THEN {[db |-> h.db, c |-> c, status |-> h.status]} ELSE {}

\* the list left as it was
SwapNone(seq, i, j) == seq

\* the exchange of newDests[index] and its neighbour through `temp`
Swap(seq, i, j) == [seq EXCEPT ![i] = seq[j], ![j] = seq[i]]

\* every row sent with the rank it already has
RanksKept(newDests) ==
    [i \in 1..Len(newDests) |-> [id |-> newDests[i].id, rank |-> newDests[i].rank]]

\* `newDests.map((d, i) => ({ id: d.id, rank: i + 1 }))`
RanksOfList(newDests) ==
    [i \in 1..Len(newDests) |-> [id |-> newDests[i].id, rank |-> i]]

\* the PATCH of the ranks and the fetch that follows it whatever the answer;
\* sent is the sequence of bodies PATCHed
Reorder(c, d, newDests, f1, f2, t) ==
    LET ranks == RanksOfList(newDests)
        h == PATCH(d, ArrayBody(ranks), f1, t) IN
    {[db |-> o.db, c |-> o.c, status |-> h.status, sent |-> << ranks >>] :
        o \in fetchDestinations(c, h.db, f2, c.selectedDestination)}

\* as if the guard on the first place were missing and the list were sent
\* as it is
moveUpUnguarded(c, d, index, f1, f2, t) ==
    Reorder(c, d, IF index = 1 THEN c.destinations
                  ELSE Swap(c.destinations, index, index - 1), f1, f2, t)

moveUp(c, d, index, f1, f2, t) ==
    IF index = 1
    THEN IF f1 = "none" /\ f2 = "none"
         THEN {[db |-> d, c |-> c, status |-> 0, sent |-> << >>]} ELSE {}
    ELSE Reorder(c, d, Swap(c.destinations, index, index - 1), f1, f2, t)

\* as if the row were exchanged with the last one, not the next
moveDownToEnd(c, d, index, f1, f2, t) ==
    IF index = Len(c.destinations)
    THEN IF f1 = "none" /\ f2 = "none"
         THEN {[db |-> d, c |-> c, status |-> 0, sent |-> << >>]} ELSE {}
    ELSE Reorder(c, d, Swap(c.destinations, index, Len(c.destinations)), f1, f2, t)

moveDown(c, d, index, f1, f2, t) ==
    IF index = Len(c.destinations)
    THEN IF f1 = "none" /\ f2 = "none"
         THEN {[db |-> d, c |-> c, status |-> 0, sent |-> << >>]} ELSE {}
    ELSE Reorder(c, d, Swap(c.destinations, index, index + 1), f1, f2, t)

----------------------------------------------------------------------------
(* ClientSpec: the page alone drives the routes *)

\* what geocodeLocation answers for a place: null, or its coordinates
GeoResults(destination, country) ==
    {<< >>,
     << [lat |-> IF destination = "Tokyo" THEN 1500000000 ELSE 500000000,
         lon |-> 1234567895] >>}

\* the faults injected under ClientSpec: into a handler's own request, and
\* into the fetch that follows it
RequestFaults == {"none", "pair2"}
RefetchFaults == {"none", "select"}

\* the page's state after a handler that sends no request
Rendered(c) ==
    /\ destinations' = c.destinations
    /\ selectedDestination' = c.selectedDestination
    /\ editingId' = c.editingId
    /\ formData' = c.formData
    /\ coordinates' = c.coordinates
    /\ geocodingStatus' = c.geocodingStatus
    /\ UNCHANGED <<isProduction, db, now, last, everFailed, inflight, geocodeVars>>

\* the state after a handler that sends requests: f1 and f2 are the faults
\* injected into its own request and into the fetch that follows.  `last`
\* describes requests made to the routes directly and stays as it is
Shown(f1, f2, o) ==
    /\ db' = o.db
    /\ destinations' = o.c.destinations
    /\ selectedDestination' = o.c.selectedDestination
    /\ editingId' = o.c.editingId
    /\ formData' = o.c.formData
    /\ coordinates' = o.c.coordinates
    /\ geocodingStatus' = o.c.geocodingStatus
    /\ everFailed' = (everFailed \/ f1 # "none" \/ f2 # "none")
    /\ UNCHANGED <<isProduction, now, last, inflight, geocodeVars>>

\* the page is loaded (or loaded again): the effect of the first render
Mount(f) ==
    \E o \in fetchDestinations(InitialClient, db, f, << >>) :
        Shown("none", f, o)

\* the user types a destination and a country and waits for the debounced
\* geocoding to answer: three handlers, one after the other
FillForm(result) ==
    LET typed == editForm(editForm(Client, "destination", "Tokyo"),
                          "country", "Japan") IN
    Rendered(IF typed.geocodingStatus = "loading"
             THEN geocodeResolved(typed, result) ELSE typed)

DoResetForm ==
    Rendered(resetForm(Client))

DoHandleEdit(k) ==
    /\ k \in 1..Len(destinations)
    /\ Rendered(handleEdit(Client, destinations[k]))

SubmitFaults(d) ==
    {"none", "insert", "select", "update"} \cup SetupFaults(d, editingId = 0)
        \cup (IF isProduction THEN {} ELSE {"reselect"})

DoHandleSubmit(f1, f2) ==
    /\ editingId = 0 => db.seq < ClientMaxSeq
    /\ f1 \in SubmitFaults(db)
    /\ (editingId = 0) => f1 \notin {"select", "update"}
    /\ (editingId # 0) => f1 # "insert"
    /\ \E o \in handleSubmit(Client, db, f1, f2, now) :
          Shown(f1, f2, o)

DoHandleDelete(k, f1, f2) ==
    /\ k \in 1..Len(destinations)
    /\ f1 \in {"none", "delete"} \cup SetupFaults(db, FALSE)
    /\ \E o \in handleDelete(Client, db, destinations[k].id, f1, f2) :
          Shown(f1, f2, o)

MoveFaults(d) ==
    {"none"} \cup SetupFaults(d, FALSE)
        \cup {PairFault[k] : k \in 1..Len(destinations)}

DoMoveUp(k, f1, f2) ==
    /\ k \in 1..Len(destinations)
    /\ f1 \in MoveFaults(db)
    /\ \E o \in moveUp(Client, db, k, f1, f2, now) :
          Shown(f1, f2, o)

DoMoveDown(k, f1, f2) ==
    /\ k \in 1..Len(destinations)
    /\ f1 \in MoveFaults(db)
    /\ \E o \in moveDown(Client, db, k, f1, f2, now) :
          Shown(f1, f2, o)

Positions == 1..ClientMaxSeq

ClientNext ==
    \/ \E f \in RefetchFaults : Mount(f)
    \/ \E result \in GeoResults("Tokyo", "Japan") : FillForm(result)
    \/ DoResetForm
    \/ \E k \in Positions : DoHandleEdit(k)
    \/ \E f1 \in RequestFaults, f2 \in RefetchFaults : DoHandleSubmit(f1, f2)
    \/ \E k \in Positions, f1 \in RequestFaults, f2 \in RefetchFaults :
          DoHandleDelete(k, f1, f2)
    \/ \E k \in Positions, f1 \in RequestFaults, f2 \in RefetchFaults :
          DoMoveUp(k, f1, f2)
    \/ \E k \in Positions, f1 \in RequestFaults, f2 \in RefetchFaults :
          DoMoveDown(k, f1, f2)

ClientSpec == Init /\ [][ClientNext]_vars

----------------------------------------------------------------------------
(* Properties of the adapter and the routes *)

Columns == NewFields \cup {"id", "created_at", "updated_at"}

\* the faults that bear on getAll, and on update
ListFaults == {"none", "open", "init", "select"}
UpdateFaults == {"none", "open", "init", "select", "update", "reselect"}

ValidBody(b) == ~Missing(b, "destination") /\ ~Missing(b, "country")

\* the stored row of an id that is stored
RowOf(d, id) == CHOOSE r \in d.rows : r.id = id

\* the position of an id in a list
Pos(s, id) == CHOOSE i \in 1..Len(s) : s[i].id = id

RanksOf(d) == {<<r.id, r.rank>> : r \in d.rows}

\* the orders of ids list() can return
ListOrders(d) ==
    {[i \in 1..Len(o.ret) |-> o.ret[i].id] : o \in getAll(d, "none")}

NamesDistinctExisting(d, a) ==
    /\ \A k \in 1..Len(a) : Exists(d, a[k].id)
    /\ \A j, k \in 1..Len(a) : j # k => a[j].id # a[k].id

\* C1: in every reachable state the list GET returns (and so list()) is in
\* ascending order of rank: each row's rank is at most the next row's
C1_ListSortedByRank ==
    \A f \in ListFaults : \A o \in GET(db, f) :
        /\ o.status = 200
        /\ \A i \in 1..(Len(o.body) - 1) : o.body[i].rank <= o.body[i + 1].rank

\* a GET was answered while a later-created row holds the smaller rank
C1_Witness ==
    /\ last.op = "GET" /\ last.status = 200 /\ ~last.faulted
    /\ \E r1, r2 \in db.rows : r1.id < r2.id /\ r1.rank > r2.rank

\* the ids of a list, in its order
ListIds(list) == [k \in 1..Len(list) |-> list[k].id]

\* the page shows the stored rows: the same ids, each once
Fresh(c, d) ==
    /\ Len(c.destinations) = Cardinality(d.rows)
    /\ {c.destinations[k].id : k \in 1..Len(c.destinations)} = {r.id : r \in d.rows}

\* C2: after any sequence of the page's completed actions (add, edit, delete,
\* move up, move down, each with its re-fetch) in which no request failed,
\* the stored row at the k-th place of the list has rank k
C2_RanksContiguous ==
    ~everFailed =>
        \A o \in getAll(db, "none") :
            \A k \in 1..Len(o.ret) : o.ret[k].rank = k

\* C3: when the page shows the stored rows and a moveUp or moveDown is
\* answered 200 by PATCH, the ranks of the stored rows are exactly 1..N,
\* N the number of stored rows, each rank once
C3_ReorderGivesPermutation ==
    Fresh(Client, db) =>
        \A k \in 1..Len(destinations) :
            \A f1 \in {"none", "pair1", "pair2", "pair3"}, f2 \in RefetchFaults :
                \A o \in moveUp(Client, db, k, f1, f2, now)
                          \cup moveDown(Client, db, k, f1, f2, now) :
                    (o.sent # << >> /\ o.status = 200) =>
                        /\ {r.rank : r \in o.db.rows} = 1..Cardinality(o.db.rows)
                        /\ \A r1, r2 \in o.db.rows :
                              r1.rank = r2.rank => r1.id = r2.id

\* rows 2 and 3 are what is left of three, and row 3 has come first: the
\* ranks 2 and 3 the rows were added with have become 1 and 2 by a move
C3_Witness ==
    /\ ~everFailed /\ Fresh(Client, db)
    /\ ListIds(destinations) = <<3, 2>>
    /\ {<<r.id, r.rank>> : r \in db.rows} = {<<3, 1>>, <<2, 2>>}

\* C4: every stored row has rank >= 1, whatever integer ranks the bodies of
\* POST, PUT and PATCH carry
C4_RankAtLeastOne == \A r \in db.rows : r.rank >= 1

\* what a move leaves when ids is the order it sent: one PATCH that names
\* every row with its place, the list in that order, every rank its place
MovedTo(o, ids) ==
    /\ o.status = 200
    /\ Len(o.sent) = 1
    /\ o.sent[1] = [k \in 1..Len(ids) |-> [id |-> ids[k], rank |-> k]]
    /\ ListIds(o.c.destinations) = ids
    /\ \A k \in 1..Len(ids) :
          /\ o.c.destinations[k].rank = k
          /\ Exists(o.db, ids[k]) /\ RowOf(o.db, ids[k]).rank = k
    /\ Cardinality(o.db.rows) = Len(ids)

\* the order ids with the entries at places i and j exchanged
Exchanged(ids, i, j) ==
    [k \in 1..Len(ids) |-> IF k = i THEN ids[j] ELSE IF k = j THEN ids[i] ELSE ids[k]]

\* C5: with no failure, moving the row at place k up (k > 1) or down
\* (k < N) gives a re-fetched list that is the list of before with places
\* k and k - 1 (or k + 1) exchanged and every other row where it was, every
\* row's stored rank its place, and all N pairs sent in one PATCH
C5_MoveSwapsNeighbours ==
    Fresh(Client, db) =>
        \A k \in 1..Len(destinations) :
            /\ k > 1 =>
                  \A o \in moveUp(Client, db, k, "none", "none", now) :
                      MovedTo(o, Exchanged(ListIds(destinations), k, k - 1))
            /\ k < Len(destinations) =>
                  \A o \in moveDown(Client, db, k, "none", "none", now) :
                      MovedTo(o, Exchanged(ListIds(destinations), k, k + 1))

\* three rows are listed, the second-created first: rows 1 and 2 have been
\* exchanged by a move and row 3 is where it was
C5_Witness ==
    /\ ~everFailed /\ Fresh(Client, db)
    /\ ListIds(destinations) = <<2, 1, 3>>
    /\ \A k \in 1..3 : destinations[k].rank = k
    /\ {<<r.id, r.rank>> : r \in db.rows} = {<<2, 1>>, <<1, 2>>, <<3, 3>>}

\* C6: updateRanks over pairs naming distinct stored ids returns true and
\* leaves each named row with the rank of its pair; with two pairs (A, rA),
\* (B, rB), rB < rA, every following list() has B before A
C6_RanksAppliedAsGiven ==
    \A a \in RankArrays :
        (Len(a) >= 1 /\ NamesDistinctExisting(db, a)) =>
            LET u == updateRanks(db, a, "none", now) IN
            /\ u.ret = TRUE
            /\ PATCH(db, ArrayBody(a), "none", now).status = 200
            /\ \A k \in 1..Len(a) : RowOf(u.db, a[k].id).rank = a[k].rank
            /\ (Len(a) = 2 /\ a[2].rank < a[1].rank) =>
                   \A o \in getAll(u.db, "none") :
                       Pos(o.ret, a[2].id) < Pos(o.ret, a[1].id)

\* a PATCH naming stored rows succeeded, changed them, and left a
\* later-created row ahead of an earlier one
C6_Witness ==
    /\ last.op = "PATCH" /\ last.status = 200 /\ last.existed /\ last.changed
    /\ \E r1, r2 \in db.rows : r1.id < r2.id /\ r1.rank > r2.rank

\* C7: updateRanks applied twice in a row with the same pairs leaves the
\* ranks, and the orders list() can return, that one application leaves
C7_ReorderIdempotent ==
    \A a \in RankArrays : \A t2 \in {now, now + 1} :
        LET u1 == updateRanks(db, a, "none", now)
            u2 == updateRanks(u1.db, a, "none", t2) IN
        /\ u2.ret = u1.ret
        /\ RanksOf(u2.db) = RanksOf(u1.db)
        /\ ListOrders(u2.db) = ListOrders(u1.db)

\* a PATCH naming stored rows succeeded and changed nothing: its pairs had
\* been applied already
C7_Witness ==
    /\ last.op = "PATCH" /\ last.status = 200 /\ last.existed /\ ~last.changed
    /\ ~last.faulted
    /\ Cardinality(db.rows) >= 2

\* C8: update of a stored id leaves every column the item does not supply
\* as it was, updated_at apart, and every other row as it was; so does PUT
\* for the properties its body lacks, and neither changes id or created_at
C8_UpdateKeepsUnsupplied ==
    \A r \in db.rows : \A f \in UpdateFaults :
        /\ \A item \in Items :
               LET u == update(db, r.id, item, f, now) IN
               /\ u.db.rows \ {RowOf(u.db, r.id)} = db.rows \ {r}
               /\ \A c \in Columns \ {"updated_at"} :
                      ~Has(item, c) => RowOf(u.db, r.id)[c] = r[c]
        /\ \A b \in Bodies :
               LET h == PUT(db, r.id, b, f, now) IN
               /\ h.db.rows \ {RowOf(h.db, r.id)} = db.rows \ {r}
               /\ \A c \in Columns \ {"updated_at"} :
                      (~Has(b, c) \/ c \in {"id", "created_at"})
                          => RowOf(h.db, r.id)[c] = r[c]
               /\ (ValidBody(b) /\ f = "none") => h.status = 200

\* a PUT changed a row and the row still holds a reason its body lacked
C8_Witness ==
    /\ last.op = "PUT" /\ last.status = 200 /\ last.changed
    /\ \E r \in db.rows : r.destination = "Paris" /\ r.reason = "food"

\* C9: update of an id that is not stored returns undefined, PUT to it with
\* a valid body answers 404, and the stored rows are as they were
C9_UnknownIdNotFound ==
    \A id \in FieldIds : ~Exists(db, id) =>
        \A f \in UpdateFaults :
            /\ \A item \in Items :
                   LET u == update(db, id, item, f, now) IN
                   u.ret = << >> /\ u.db.rows = db.rows
            /\ \A b \in Bodies : ValidBody(b) =>
                   LET h == PUT(db, id, b, f, now) IN
                   h.status = 404 /\ h.db.rows = db.rows

\* a PUT to an id that was not stored was answered 404 while rows are stored
C9_Witness ==
    /\ last.op = "PUT" /\ last.status = 404 /\ ~last.existed /\ ~last.faulted
    /\ db.rows # {}

\* C10: remove(id) returns true exactly when the id was stored; after it
\* getById(id) is undefined, remove(id) again returns false, and every
\* other row is as it was; DELETE answers 200 {success: true} or 404
C10_RemoveDeletesExactly ==
    \A id \in Ids :
        LET r == remove(db, id, "none")
            h == DELETE(db, id, "none") IN
        /\ r.ret = Exists(db, id)
        /\ r.db.rows = {x \in db.rows : x.id # id}
        /\ getById(r.db, id, "none").ret = << >>
        /\ remove(r.db, id, "none").ret = FALSE
        /\ h.db = r.db
        /\ h.status = (IF Exists(db, id) THEN 200 ELSE 404)
        /\ Exists(db, id) => h.body = [success |-> TRUE]

\* a DELETE of a stored id was answered 200 and other rows remain
C10_Witness ==
    /\ last.op = "DELETE" /\ last.status = 200 /\ last.existed
    /\ db.rows # {}

----------------------------------------------------------------------------
(* Properties of create, of the ids and of the routes' answers *)

\* the items POST hands to create for the valid bodies of FieldSpec
CreateItems == {PostItem(b) : b \in {x \in Bodies : ValidBody(x)}}

\* C11: when create(item) returns, getById of the id it returned gives the
\* record create returned; its nine fields are the item's (image_url null
\* where the item has none), and id, created_at, updated_at are set
C11_CreateThenGetById ==
    \A item \in CreateItems :
        LET c == create(db, item, "none", now) IN
        ~c.threw =>
            LET g == getById(c.db, c.ret[1].id, "none") IN
            /\ g.ret = c.ret
            /\ \A f \in NewFields \ {"image_url"} : g.ret[1][f] = item[f]
            /\ g.ret[1].image_url = OrDefault(item, "image_url", "", Null)
            /\ g.ret[1].id = db.seq + 1
            /\ g.ret[1].created_at = now /\ g.ret[1].updated_at = now

IdsOf(d) == {r.id : r \in d.rows}

\* C12: in every step, an id that was not stored before the step is larger
\* than every id handed out so far (so it is the id of no record that exists
\* or ever existed), the ids handed out only grow, no two stored rows share
\* an id, and PUT and PATCH leave the set of stored ids as it was
C12_IdsNeverReused ==
    [][/\ db'.seq >= db.seq
       /\ \A r \in db'.rows : r.id \notin IdsOf(db) => r.id > db.seq
       /\ \A r \in db'.rows : r.id <= db'.seq
       /\ \A r1, r2 \in db'.rows : r1.id = r2.id => r1 = r2
       /\ last'.op \in {"PUT", "PATCH"} => IdsOf(db') = IdsOf(db)]_vars

\* row 1 was deleted and the POST after it was given id 2
C12_Witness ==
    /\ last.op = "POST" /\ last.status = 201
    /\ db.seq = 2 /\ IdsOf(db) = {2}

\* the faults that bear on POST and on PUT
WriteFaults == {"none", "open", "init", "select", "insert", "update", "reselect"}

\* C13: POST with destination or country absent or empty answers 400 and
\* leaves the backend as it was, rows and id counter; PUT with such a body
\* answers 400 and leaves the backend as it was, whatever id it names
C13_MissingFieldsRejected ==
    \A b \in Bodies :
        (~Has(b, "destination") \/ ~Has(b, "country")
            \/ b.destination = "" \/ b.country = "") =>
            \A f \in WriteFaults :
                /\ POST(db, b, f, now).status = 400
                /\ POST(db, b, f, now).db = db
                /\ \A id \in FieldIds :
                      /\ PUT(db, id, b, f, now).status = 400
                      /\ PUT(db, id, b, f, now).db = db

\* a POST was answered 400 while rows are stored and ids are left to give
C13_Witness ==
    /\ last.op = "POST" /\ last.status = 400 /\ ~last.changed
    /\ db.rows # {} /\ db.seq < FieldMaxSeq

\* what POST of a valid body gives when an absent image_url is to come out
\* as noImage: 201 unless the table is missing, the record of the answer is
\* the row stored under a new id, and each property the body lacks has its
\* default there
PostDefaults(noImage) ==
    \A b \in Bodies : ValidBody(b) =>
        LET h == POST(db, b, "none", now) IN
        /\ (isProduction \/ ~db.open \/ db.exists) => h.status = 201
        /\ h.status = 201 =>
              /\ h.body.id \in Nat /\ ~Exists(db, h.body.id)
              /\ Exists(h.db, h.body.id)
              /\ Fetched(RowOf(h.db, h.body.id)) = h.body
              /\ ~Has(b, "rank") => h.body.rank = 1
              /\ ~Has(b, "latitude") => h.body.latitude = 0
              /\ ~Has(b, "longitude") => h.body.longitude = 0
              /\ \A f \in {"reason", "budget", "timeline"} :
                    ~Has(b, f) => h.body[f] = ""
              /\ ~Has(b, "image_url") => h.body.image_url = noImage

\* C14: POST of a valid body answers 201 with the created record, which has
\* an integer id, and stores rank 1, latitude 0, longitude 0 and the empty
\* string for reason, budget, timeline and image_url where the body lacks them
C14_AbsentStoredAsEmpty == PostDefaults("")

\* C14, amended: as above, but an absent image_url is stored as null
C14_AbsentDefaulted == PostDefaults(Null)

\* a POST that carried destination and country alone was answered 201 and
\* its row is stored with the defaults
C14_Witness ==
    /\ last.op = "POST" /\ last.status = 201
    /\ \E r \in db.rows :
          /\ r.destination = "Paris" /\ r.rank = 1 /\ r.latitude = 0
          /\ r.reason = "" /\ r.budget = "" /\ r.timeline = ""
          /\ r.image_url = Null

\* the faults that bear on updateRanks over the batches of Spec
RankFaults == {"none", "open", "init"} \cup {PairFault[k] : k \in 1..MaxBatch}

\* C15: PATCH answers 400 and leaves the backend as it was when its body has
\* no ranks or ranks that are not an array; when ranks is an array, the empty
\* one too, the backend is as updateRanks leaves it and the answer is 200
\* {success: true} if updateRanks returned true, 500 if not
C15_PatchValidatesRanks ==
    \A b \in PatchBodies : \A f \in RankFaults :
        LET h == PATCH(db, b, f, now) IN
        IF ~Has(b, "ranks") \/ b.ranks.type # "array"
        THEN h.status = 400 /\ h.db = db
        ELSE LET u == updateRanks(db, b.ranks.items, f, now) IN
             /\ h.db = u.db
             /\ u.ret => h.status = 200 /\ h.body = [success |-> TRUE]
             /\ ~u.ret => h.status = 500

\* a PATCH was answered 400 while rows are stored
C15_Witness ==
    /\ last.op = "PATCH" /\ last.status = 400 /\ ~last.changed
    /\ db.rows # {}

\* C16: when the statement a request runs fails, the answer is 500: the
\* SELECT of GET and of GET item, the SELECT or the UPDATE of PUT, the DELETE
\* of DELETE, the INSERT of POST and a pair's UPDATE of PATCH
C16_FailuresAnswer500 ==
    db.exists =>
        /\ \A o \in GET(db, "select") : o.status = 500
        /\ \A b \in RankBodies : ValidBody(b) =>
              POST(db, b, "insert", now).status = 500
        /\ \A a \in RankArrays : Len(a) >= 1 =>
              PATCH(db, ArrayBody(a), "pair1", now).status = 500
        /\ \A id \in Ids :
              /\ GETItem(db, id, "select").status = 500
              /\ DELETE(db, id, "delete").status = 500
              /\ \A b \in RankBodies : ValidBody(b) =>
                    /\ PUT(db, id, b, "select", now).status = 500
                    /\ Exists(db, id) => PUT(db, id, b, "update", now).status = 500

\* the backend fails during getAll() under fault f: a call of it throws, or
\* the table the SELECT names is missing
ListFails(f) ==
    \/ f = "select"
    \/ f \in SetupFaults(db, TRUE)
    \/ (~isProduction /\ db.open /\ ~db.exists)

\* C17: list() never throws; when the backend fails during it, it returns
\* the empty sequence, as it does of an empty table, and the stored rows are
\* as they were; GET then answers 200 with []
C17_ListNeverThrows ==
    \A f \in ListFaults : \A o \in getAll(db, f) :
        /\ ~o.threw
        /\ o.db.rows = db.rows
        /\ ListFails(f) =>
              /\ o.ret = << >>
              /\ \A h \in GET(db, f) : h.status = 200 /\ h.body = << >>

\* a GET on which the backend failed was answered 200 while rows are stored
C17_Witness ==
    /\ last.op = "GET" /\ last.status = 200 /\ last.faulted
    /\ db.rows # {}

\* the rank the pairs of a leave on id: that of the last pair naming it
LastRankFor(a, id) ==
    a[CHOOSE k \in 1..Len(a) :
          a[k].id = id /\ \A j \in (k + 1)..Len(a) : a[j].id # id].rank

\* C18: when no backend statement fails, updateRanks returns true whether or
\* not the ids of its pairs are stored: no row is added or removed, a row no
\* pair names is as it was, and a row some pair names has the rank of the
\* last pair naming it, whatever ids the other pairs name
C18_UnknownIdsAreNoOps ==
    (db.exists \/ (~isProduction /\ ~db.open)) =>
        \A a \in RankArrays :
            LET u == updateRanks(db, a, "none", now) IN
            /\ u.ret = TRUE
            /\ IdsOf(u.db) = IdsOf(db)
            /\ Cardinality(u.db.rows) = Cardinality(db.rows)
            /\ \A r \in db.rows :
                  IF \E k \in 1..Len(a) : a[k].id = r.id
                  THEN RowOf(u.db, r.id).rank = LastRankFor(a, r.id)
                  ELSE r \in u.db.rows

\* a PATCH naming a stored id and an id that is not stored was answered 200
\* and changed the stored row
C18_Witness ==
    /\ last.op = "PATCH" /\ last.status = 200 /\ ~last.faulted
    /\ last.existed /\ last.missed /\ last.changed

\* C19: when the backend fails on the k-th pair of a batch, on either
\* backend, updateRanks returns false and PATCH answers 500 with the one
\* error body; a row named among pairs 1..k-1 has the rank of the last of
\* them naming it and every other row, those named from pair k on too, is as
\* it was
C19_BatchNotAtomic ==
    (db.exists \/ (~isProduction /\ ~db.open)) =>
        \A a \in RankArrays : \A k \in 1..Len(a) :
            LET u == updateRanks(db, a, PairFault[k], now)
                h == PATCH(db, ArrayBody(a), PairFault[k], now)
                done == SubSeq(a, 1, k - 1) IN
            /\ u.ret = FALSE
            /\ h.status = 500 /\ h.body = ErrorBody("Failed to update ranks")
            /\ h.db = u.db
            /\ IdsOf(u.db) = IdsOf(db)
            /\ \A r \in db.rows :
                  IF \E j \in 1..Len(done) : done[j].id = r.id
                  THEN /\ RowOf(u.db, r.id).rank = LastRankFor(done, r.id)
                       /\ RowOf(u.db, r.id).updated_at = now
                  ELSE r \in u.db.rows

\* a PATCH on which the backend failed was answered 500 and the rows are
\* not as they were: the pairs before the failing one stay applied
C19_Witness ==
    /\ last.op = "PATCH" /\ last.status = 500 /\ last.faulted
    /\ last.existed /\ last.changed

----------------------------------------------------------------------------
(* ConcSpec: two requests served at once on the hosted backend.  A handler *)
(* gives way at each `await` of a statement, so a step is one statement:   *)
(* one pair's UPDATE of updateRanks, the SELECT of update, its UPDATE.     *)

\* a request being served: pc is the pair updateRanks is at (PATCH), or 1
\* before the SELECT of update, 2 before its UPDATE, 3 after it (PUT);
\* existing is what the SELECT returned
PatchRequest(a) ==
    [op |-> "PATCH", ranks |-> a, id |-> 0, body |-> EmptyItem, pc |-> 1,
     existing |-> << >>]

PutRequest(id, body) ==
    [op |-> "PUT", ranks |-> << >>, id |-> id, body |-> body, pc |-> 1,
     existing |-> << >>]

Finished(q) ==
    IF q.op = "PATCH" THEN q.pc > Len(q.ranks) ELSE q.pc = 3

ConcRequests ==
    {PatchRequest(<<[id |-> 1, rank |-> 1], [id |-> 2, rank |-> 2]>>),
     PatchRequest(<<[id |-> 1, rank |-> 2], [id |-> 2, rank |-> 1]>>),
     PutRequest(1, [destination |-> "Tokyo", country |-> "Japan"]),
     PutRequest(1, [destination |-> "Tokyo", country |-> "Japan", rank |-> 2])}

\* two requests arrive while none is being served
Arrive(q1, q2) ==
    /\ inflight.reqs = << >>
    /\ db.rows # {}
    /\ inflight' = [base |-> db.rows, reqs |-> <<q1, q2>>]
    /\ UNCHANGED <<isProduction, db, now, last, everFailed, clientVars, geocodeVars>>

\* updateRanks of request i runs the UPDATE of its next pair
PatchPair(i) ==
    /\ i \in 1..Len(inflight.reqs)
    /\ LET q == inflight.reqs[i] IN
       /\ q.op = "PATCH" /\ ~Finished(q)
       /\ db' = [db EXCEPT !.rows = SetRank(@, q.ranks[q.pc], now)]
       /\ inflight' = [inflight EXCEPT !.reqs[i].pc = @ + 1]
    /\ UNCHANGED <<isProduction, now, last, everFailed, clientVars, geocodeVars>>

\* update of request i runs getById; an id that is not stored ends it
PutRead(i) ==
    /\ i \in 1..Len(inflight.reqs)
    /\ LET q == inflight.reqs[i]
           g == getById(db, q.id, "none") IN
       /\ q.op = "PUT" /\ q.pc = 1
       /\ inflight' = [inflight EXCEPT
                         !.reqs[i].existing = g.ret,
                         !.reqs[i].pc = IF g.ret = << >> THEN 3 ELSE 2]
    /\ UNCHANGED <<isProduction, db, now, last, everFailed, clientVars, geocodeVars>>

\* update of request i runs its UPDATE with what getById had returned
PutWrite(i) ==
    /\ i \in 1..Len(inflight.reqs)
    /\ LET q == inflight.reqs[i] IN
       /\ q.op = "PUT" /\ q.pc = 2
       /\ db' = [db EXCEPT
                   !.rows = {IF r.id = q.id
                             THEN UpdatedRow(r, q.existing[1], PutItem(q.body), now)
                             ELSE r : r \in @}]
       /\ inflight' = [inflight EXCEPT !.reqs[i].pc = 3]
    /\ UNCHANGED <<isProduction, now, last, everFailed, clientVars, geocodeVars>>

ConcMaxSeq == 2

ConcBodies == {[destination |-> "Tokyo", country |-> "Japan"],
               [destination |-> "Tokyo", country |-> "Japan", rank |-> 2]}

ConcNext ==
    \/ \E b \in ConcBodies : inflight.reqs = << >> /\ ReqPOST(b, "none", ConcMaxSeq)
    \/ \E q1, q2 \in ConcRequests : Arrive(q1, q2)
    \/ \E i \in 1..2 : PatchPair(i)
    \/ \E i \in 1..2 : PutRead(i)
    \/ \E i \in 1..2 : PutWrite(i)

HostedInit == Init /\ isProduction

ConcSpec == HostedInit /\ [][ConcNext]_vars

\* the stored rows after request q has been served alone on rows
ServedAlone(rows, q) ==
    IF q.op = "PATCH"
    THEN PATCH([db EXCEPT !.rows = rows], ArrayBody(q.ranks), "none", now).db.rows
    ELSE PUT([db EXCEPT !.rows = rows], q.id, q.body, "none", now).db.rows

\* C20: when two requests served at once on the hosted backend have both
\* run to their end, the stored rows are those that serving the two one
\* after the other, in one of the two orders, leaves
C20_OverlapIsSerial ==
    (Len(inflight.reqs) = 2 /\ Finished(inflight.reqs[1])
                            /\ Finished(inflight.reqs[2])) =>
        LET q1 == inflight.reqs[1]
            q2 == inflight.reqs[2] IN
        \/ db.rows = ServedAlone(ServedAlone(inflight.base, q1), q2)
        \/ db.rows = ServedAlone(ServedAlone(inflight.base, q2), q1)

----------------------------------------------------------------------------
(* Properties of the table set-up, of the timestamps and of the frame of   *)
(* updateRanks                                                             *)

\* C21: on the hosted backend, whichever operation of the adapter is run
\* first and whatever ran before it, the table exists when its statement
\* runs: the operation leaves the table in place, and updateRanks, which
\* fails on a missing table alone, returns true
C21_TableCreatedOnFirstAccess ==
    isProduction =>
        /\ \A o \in getAll(db, "none") : o.db.exists
        /\ \A b \in RankBodies : ValidBody(b) =>
              LET c == create(db, PostItem(b), "none", now) IN
              c.db.exists /\ ~c.threw
        /\ \A id \in Ids :
              /\ getById(db, id, "none").db.exists
              /\ update(db, id, EmptyItem, "none", now).db.exists
              /\ remove(db, id, "none").db.exists
        /\ \A a \in RankArrays :
              LET u == updateRanks(db, a, "none", now) IN
              u.db.exists /\ u.ret = TRUE

\* TimeSpec: creations, partial updates and reorders under a clock that
\* advances
TimeMaxSeq == 2

TimeBodies == {[destination |-> "Tokyo", country |-> "Japan"],
               [destination |-> "Tokyo", country |-> "Japan", rank |-> 2]}

TimeNext ==
    \/ Tick
    \/ \E b \in TimeBodies, f \in AllFaults : ReqPOST(b, f, TimeMaxSeq)
    \/ \E a \in RankArrays, f \in AllFaults : ReqPATCH(ArrayBody(a), f)
    \/ \E i \in Ids, it \in Items, f \in AllFaults : CallUpdate(i, it, f)

TimeSpec == Init /\ [][TimeNext]_vars

\* some pair of a names id
Names(a, id) == \E k \in 1..Len(a) : a[k].id = id

\* C22: every stored row has created_at <= updated_at <= the clock; create
\* gives the new row the clock's time for both, update and updateRanks give
\* the rows they write the clock's time for updated_at and leave created_at
\* as it was
C22_UpdatedNotBeforeCreated ==
    /\ \A r \in db.rows : r.created_at <= r.updated_at /\ r.updated_at <= now
    /\ \A b \in TimeBodies :
          LET c == create(db, PostItem(b), "none", now) IN
          ~c.threw => /\ c.ret[1].created_at = now
                      /\ c.ret[1].updated_at = now
                      /\ \A r \in c.db.rows : r.created_at <= r.updated_at
    /\ \A r \in db.rows :
          /\ \A item \in Items :
                LET u == update(db, r.id, item, "none", now) IN
                /\ RowOf(u.db, r.id).created_at = r.created_at
                /\ RowOf(u.db, r.id).updated_at = now
          /\ \A a \in RankArrays : Names(a, r.id) =>
                LET u == updateRanks(db, a, "none", now) IN
                /\ RowOf(u.db, r.id).created_at = r.created_at
                /\ RowOf(u.db, r.id).updated_at = now

\* a row created after the clock had advanced is stored beside a row that
\* was created before and written since
C22_Witness ==
    \E r1, r2 \in db.rows :
        /\ r1.created_at = 0 /\ r1.updated_at = 1
        /\ r2.created_at = 1 /\ r2.updated_at = 1

\* C23: update(id, {}) of a stored id returns the record, and the record's
\* updated_at is then strictly greater than it was before the call
C23_UpdateRefreshesStrictly ==
    \A r \in db.rows :
        LET u == update(db, r.id, EmptyItem, "none", now) IN
        /\ u.ret # << >>
        /\ u.ret[1].updated_at > r.updated_at
        /\ RowOf(u.db, r.id).updated_at > r.updated_at

\* C24: updateRanks, whether or not the backend fails during it, adds and
\* removes no row and hands out no id; a row no pair names is as it was, and
\* a row some pair names keeps every column but rank and updated_at
C24_ReorderChangesRankOnly ==
    \A a \in RankArrays : \A f \in RankFaults :
        LET u == updateRanks(db, a, f, now) IN
        /\ IdsOf(u.db) = IdsOf(db)
        /\ Cardinality(u.db.rows) = Cardinality(db.rows)
        /\ u.db.seq = db.seq
        /\ \A r \in db.rows :
              IF Names(a, r.id)
              THEN \A c \in Columns \ {"rank", "updated_at"} :
                       RowOf(u.db, r.id)[c] = r[c]
              ELSE r \in u.db.rows

\* a PATCH changed the stored rows after the clock had advanced, and a row
\* it did not name still has the updated_at and the image_url of before
C24_Witness ==
    /\ last.op = "PATCH" /\ last.status = 200 /\ last.changed
    /\ now = 1
    /\ \E r1, r2 \in db.rows :
          /\ r1.updated_at = 1 /\ r1.created_at = 0
          /\ r2.updated_at = 0 /\ r2.image_url = ""

----------------------------------------------------------------------------
(* Properties of the page's handlers *)

\* C25: after any sequence of the page's completed actions (add, delete,
\* move up, move down) in which no request failed, no two stored rows have
\* the same rank, so list() can return the rows in one order only
C25_RanksDistinct ==
    ~everFailed =>
        /\ \A r1, r2 \in db.rows : r1.rank = r2.rank => r1.id = r2.id
        /\ Cardinality(ListOrders(db)) = 1

\* C26: moveUp at the first place and moveDown at the last send no request
\* and leave the page and the backend, every stored rank and updated_at, as
\* they were
C26_MoveAtEndIsNoOp ==
    Len(destinations) >= 1 =>
        LET up == moveUp(Client, db, 1, "none", "none", now)
            down == moveDown(Client, db, Len(destinations), "none", "none", now) IN
        /\ up # {} /\ down # {}
        /\ \A o \in up \cup down :
              /\ o.sent = << >> /\ o.status = 0
              /\ o.c = Client
              /\ o.db = db

\* three rows are listed in an order a move has made, so that the first and
\* the last place differ from the places the rows were added at, and moveUp
\* at the first place gives back the page as it is
C26_Witness ==
    /\ ~everFailed /\ Fresh(Client, db)
    /\ ListIds(destinations) = <<3, 1, 2>>
    /\ \E o \in moveUp(Client, db, 1, "none", "none", now) :
          o.sent = << >> /\ ListIds(o.c.destinations) = <<3, 1, 2>>

\* the page lists the stored rows, and the k-th of them is listed and stored
\* with rank k
RankedInPlace(c, d) ==
    /\ Fresh(c, d)
    /\ \A k \in 1..Len(c.destinations) :
          /\ c.destinations[k].rank = k
          /\ RowOf(d, c.destinations[k].id).rank = k

\* C27: with the stored ranks 1..N listed in place and no backend failure,
\* moveUp at place k > 1 followed, once its re-fetch has completed, by
\* moveDown at place k - 1 gives the list its order of before and every
\* stored row its rank of before
C27_MoveUpThenDownRestores ==
    RankedInPlace(Client, db) =>
        \A k \in 2..Len(destinations) :
            \A o1 \in moveUp(Client, db, k, "none", "none", now) :
                /\ ListIds(o1.c.destinations) # ListIds(destinations)
                /\ \A o2 \in moveDown(o1.c, o1.db, k - 1, "none", "none", now) :
                      /\ o2.status = 200
                      /\ ListIds(o2.c.destinations) = ListIds(destinations)
                      /\ RanksOf(o2.db) = RanksOf(db)
                      /\ RankedInPlace(o2.c, o2.db)

\* three rows are listed with ranks 1..3 in place, the last two exchanged by
\* a move
C27_Witness ==
    /\ ~everFailed /\ RankedInPlace(Client, db)
    /\ ListIds(destinations) = <<1, 3, 2>>

\* C28: when the page lists the stored rows and a delete from it is answered
\* 200 and its re-fetch succeeds, the selection is then null or a row whose
\* id is still stored
C28_SelectionSurvivesDelete ==
    (~everFailed /\ Fresh(Client, db)) =>
        \A k \in 1..Len(destinations) :
            \A o \in handleDelete(Client, db, destinations[k].id, "none", "none") :
                o.status = 200 =>
                    \/ o.c.selectedDestination = << >>
                    \/ Exists(o.db, o.c.selectedDestination[1].id)

----------------------------------------------------------------------------
(* GeoSpec: the form and its geocoding, one step per event: a keystroke,   *)
(* the debounce timer firing, geocodeLocation answering, the submit        *)

GeoMaxSeq == 2

GeoDestinations == {"", "Tokyo", "Paris"}
GeoCountries == {"", "Japan"}

\* the page after an event of the form
FormShown(c, timer, calls) ==
    /\ formData' = c.formData
    /\ editingId' = c.editingId
    /\ coordinates' = c.coordinates
    /\ geocodingStatus' = c.geocodingStatus
    /\ geocodeTimeoutRef' = timer
    /\ geocodeCalls' = calls
    /\ UNCHANGED <<isProduction, db, now, last, everFailed, inflight,
                   destinations, selectedDestination>>

\* onChange of the destination or the country field, and the effect after it
TypeText(field, value) ==
    /\ formData[field] # value
    /\ LET c == editForm(Client, field, value) IN
       FormShown(c, effectTimer(c, formData, geocodeTimeoutRef), geocodeCalls)

\* the debounce timer fires: its callback calls geocodeLocation with the
\* text the effect that set it had seen
TimerFires ==
    /\ geocodeTimeoutRef # << >>
    /\ FormShown(Client, << >>, geocodeCalls \cup {geocodeTimeoutRef[1]})

\* geocodeLocation answers the call made for place, and the callback goes on
GeoAnswers(place, result) ==
    /\ place \in geocodeCalls
    /\ result \in GeoResults(place.destination, place.country)
    /\ FormShown(geocodeResolved(Client, result), geocodeTimeoutRef,
                 geocodeCalls \ {place})

\* the form is submitted to add a destination
GeoSubmit ==
    /\ editingId = 0
    /\ db.seq < GeoMaxSeq
    /\ \E o \in handleSubmit(Client, db, "none", "none", now) :
          /\ db' = o.db
          /\ destinations' = o.c.destinations
          /\ selectedDestination' = o.c.selectedDestination
          /\ editingId' = o.c.editingId
          /\ formData' = o.c.formData
          /\ coordinates' = o.c.coordinates
          /\ geocodingStatus' = o.c.geocodingStatus
          /\ geocodeTimeoutRef' = effectTimer(o.c, formData, geocodeTimeoutRef)
          /\ geocodeCalls' = geocodeCalls
          /\ UNCHANGED <<isProduction, now, last, everFailed, inflight>>

GeoPlaces == [destination : GeoDestinations \ {""}, country : GeoCountries \ {""}]

GeoNext ==
    \/ \E v \in GeoDestinations : TypeText("destination", v)
    \/ \E v \in GeoCountries : TypeText("country", v)
    \/ TimerFires
    \/ \E place \in GeoPlaces :
          \E result \in GeoResults(place.destination, place.country) :
              GeoAnswers(place, result)
    \/ GeoSubmit

GeoSpec == Init /\ [][GeoNext]_vars

\* C29: whenever the geocoding status is "success" and the form can be
\* submitted (destination and country not blank, coordinates held), the
\* coordinates are what geocodeLocation answers for the destination and the
\* country the form holds
C29_CoordinatesMatchForm ==
    (/\ geocodingStatus = "success"
     /\ ~Blank(formData.destination) /\ ~Blank(formData.country)
     /\ coordinates # << >>) =>
        coordinates \in GeoResults(formData.destination, formData.country)

----------------------------------------------------------------------------
(* Properties of the stored image_url *)

\* C30: after any sequence of POST and PUT requests every stored row has an
\* image_url that is null or a string that is not empty
C30_ImageUrlNullOrNonEmpty ==
    \A r \in db.rows : r.image_url = Null \/ r.image_url # ""

====
